---- MODULE Spec2Model ----
(***************************************************************************)
(* Connect 4 (src/connect4.py): the configuration check of __main__, the   *)
(* Board and its column-drop placement, the per-player adjacency record    *)
(* Player._moves with the win test Player.has_win, and the event loop of   *)
(* Connect4._event_loop with its turn order and its end messages.          *)
(*                                                                         *)
(* Representation.  A Coin is identified by <<col, row>>, the same pair    *)
(* the code uses as a key of _moves; "no coin" (None) is <<>>.  A colour   *)
(* is a name.  A list held in _moves is a bag of coordinates: the code     *)
(* only appends to these lists and tests membership in them, so the bag    *)
(* keeps multiplicity (a duplicate append stays visible) and drops only    *)
(* the order.  Rendering (_update_board) and the console prompts change no *)
(* state of the game and are left out.                                     *)
(***************************************************************************)
EXTENDS Integers, FiniteSets, Sequences, Bags, TLC

(* Bounds of the exploration: the boards explored have at most MaxRows     *)
(* rows, MaxCols columns and MaxCells cells, and are played to the end.    *)
MaxRows == 4
MaxCols == 4
MaxCells == 12

(* The coin radius the source ships with (line 20). *)
DefaultRadius == 50

(* The literal the run length is compared with in Player.has_win. *)
WinLength == 53

VARIABLES
    COIN_RADIUS,   \* module constant COIN_RADIUS, as edited by the user
    ROWS,          \* module constant ROWS
    COLUMNS,       \* module constant COLUMNS
    pc,            \* "main", "error" (InvalidValueError raised), "loop", "done"
    error,         \* the parts of the InvalidValueError message, in order
    coins,         \* Board.coins[col][row]: [placed, colour]
    col_ranges,    \* Board.col_ranges[col]: the set of pixels of the range
    moves,         \* moves[p] is players[p]._moves
    cur_player,    \* _event_loop local cur_player (0 / 1)
    moves_made,    \* _event_loop local moves_made
    coin,          \* _event_loop local coin: result of the last place_coin
    end_message    \* _event_loop local end_message: [kind, player]

vars == <<COIN_RADIUS, ROWS, COLUMNS, pc, error, coins, col_ranges, moves,
          cur_player, moves_made, coin, end_message>>

None == <<>>
GRAY == "gray"
NoMessage == [kind |-> "none", player |-> -1]

(* players[p].colour: get_player removes a chosen colour from the list, so  *)
(* the two players always have different colours, neither of them gray.     *)
PlayerColour(p) == IF p = 0 THEN "red" ELSE "yellow"

(* Geometry of the visualization, lines 23 and 191. *)
Square == (COIN_RADIUS + 1) * 2
WIDTH == (COIN_RADIUS + 1) * (COLUMNS + 2) * 2

(* Coin.__init__: a gray coin that has not been placed. *)
NewCoin == [placed |-> FALSE, colour |-> GRAY]

(* Coin.place *)
Place(c, colour) == [placed |-> TRUE, colour |-> colour]

(* Board.__init__: COLUMNS columns of ROWS unplaced coins and the pixel     *)
(* range of each column.                                                    *)
BoardCoins == [col \in 0..(COLUMNS - 1) |-> [row \in 0..(ROWS - 1) |-> NewCoin]]
BoardColRanges ==
    [col \in 0..(COLUMNS - 1) |-> ((col + 1) * Square)..((col + 2) * Square - 1)]

(* __main__ line 327 and InvalidValueError.__init__ *)
ValidMutNoRows == COIN_RADIUS > 0 /\ COLUMNS > 0
ValidValues == COIN_RADIUS > 0 /\ ROWS > 0 /\ COLUMNS > 0
InvalidValueError ==
    (IF COIN_RADIUS <= 0 THEN <<"radius">> ELSE <<>>)
    \o (IF ROWS <= 0 THEN <<"rows">> ELSE <<>>)
    \o (IF COLUMNS <= 0 THEN <<"columns">> ELSE <<>>)

(***************************************************************************)
(* Player                                                                  *)
(***************************************************************************)

(* Player.place_coin: mv is the player's _moves, c = <<cx, cy>> the coin.   *)
Touching(k, c) ==
    /\ k[1] \in {c[1] - 1, c[1], c[1] + 1}
    /\ k[2] \in {c[2] - 1, c[2], c[2] + 1}

PlayerPlaceCoinMutOneWay(mv, c) ==
    LET coin_moves == {k \in DOMAIN mv : Touching(k, c)}
    IN  [k \in (DOMAIN mv) \cup {c} |->
            IF k = c THEN SetToBag(coin_moves) ELSE mv[k]]
PlayerPlaceCoinMutAssign(mv, c) ==
    LET coin_moves == {k \in DOMAIN mv : Touching(k, c)}
    IN  [k \in (DOMAIN mv) \cup {c} |->
            IF k = c THEN SetToBag(coin_moves)
            ELSE IF k \in coin_moves THEN SetToBag({c})
            ELSE mv[k]]
PlayerPlaceCoin(mv, c) ==
    LET coin_moves == {k \in DOMAIN mv : Touching(k, c)}
    IN  [k \in (DOMAIN mv) \cup {c} |->
            IF k = c THEN SetToBag(coin_moves)
            ELSE IF k \in coin_moves THEN mv[k] (+) SetToBag({c})
            ELSE mv[k]]

(* One of the two while loops of has_win: the number of steps taken from    *)
(* move in direction <<dx, dy>>, each step allowed by the list of the cell  *)
(* it leaves.                                                               *)
WalkLen(mv, move, dx, dy) ==
    LET walk[m \in DOMAIN mv] ==
            LET next == <<m[1] + dx, m[2] + dy>>
            IN  IF BagIn(next, mv[m]) THEN 1 + walk[next] ELSE 0
    IN  walk[move]

(* The value of length at the comparison, for the neighbour n of c. *)
RunLengthMutSameSide(mv, c, n) ==
    LET x_diff == n[1] - c[1]
        y_diff == n[2] - c[2]
    IN  2 + WalkLen(mv, n, x_diff, y_diff) + WalkLen(mv, c, x_diff, y_diff)
RunLength(mv, c, n) ==
    LET x_diff == n[1] - c[1]
        y_diff == n[2] - c[2]
    IN  2 + WalkLen(mv, n, x_diff, y_diff) + WalkLen(mv, c, -x_diff, -y_diff)

(* Player.has_win *)
HasWinMutFirstNeighbour(mv, c) == mv[c] # EmptyBag
has_win(mv, c) ==
    \E n \in BagToSet(mv[c]) : RunLength(mv, c, n) >= WinLength

(***************************************************************************)
(* Board.place_coin                                                        *)
(***************************************************************************)

(* Lines 212-214: the first column whose range holds x, or COLUMNS. *)
FindCol(x) ==
    LET scan[col \in 0..COLUMNS] ==
            IF col < COLUMNS /\ x \notin col_ranges[col] THEN scan[col + 1]
            ELSE col
    IN  scan[0]

(* Lines 218-222: the lowest unplaced row of the column, or -1; column is  *)
(* self.coins[col].                                                        *)
FindRowMutTop(column, row) == IF column[0].placed THEN -1 ELSE 0
RECURSIVE FindRowMutOverwrite(_, _)
FindRowMutOverwrite(column, row) ==
    IF row > 0 /\ column[row].placed THEN FindRowMutOverwrite(column, row - 1)
    ELSE row
RECURSIVE FindRow(_, _)
FindRow(column, row) ==
    IF row > -1 /\ column[row].placed THEN FindRow(column, row - 1) ELSE row

(* The coin Board.place_coin returns for a click at pixel x on the board:   *)
(* None when x belongs to no column or the column is full.                  *)
PlacedCoin(board, x) ==
    LET col == FindCol(x)
    IN  IF col = COLUMNS THEN None
        ELSE LET row == FindRow(board[col], ROWS - 1)
             IN  IF row = -1 THEN None ELSE <<col, row>>

(***************************************************************************)
(* __main__ and Connect4._event_loop                                       *)
(***************************************************************************)

Init ==
    /\ COIN_RADIUS \in {0, DefaultRadius}
    /\ ROWS \in -1..MaxRows
    /\ COLUMNS \in -1..MaxCols
    /\ ROWS * COLUMNS <= MaxCells
    /\ pc = "main"
    /\ error = <<>>
    /\ coins = <<>>
    /\ col_ranges = <<>>
    /\ moves = [p \in {0, 1} |-> <<>>]
    /\ cur_player = 0
    /\ moves_made = 0
    /\ coin = None
    /\ end_message = NoMessage

(* Lines 325-338: raise InvalidValueError, or build the board and the game  *)
(* and enter the event loop with cur_player = 0 and moves_made = 0.         *)
Main ==
    /\ pc = "main"
    /\ IF ~ValidValues
       THEN /\ pc' = "error"
            /\ error' = InvalidValueError
            /\ UNCHANGED <<coins, col_ranges>>
       ELSE /\ pc' = "loop"
            /\ coins' = BoardCoins
            /\ col_ranges' = BoardColRanges
            /\ UNCHANGED error
    /\ UNCHANGED <<COIN_RADIUS, ROWS, COLUMNS, moves, cur_player, moves_made,
                   coin, end_message>>

(* The loop runs until a break. *)
RunningMutAlways == pc \in {"loop", "done"}
Running == pc = "loop"

(* Lines 291-293: the window is closed. *)
Quit ==
    /\ Running
    /\ pc' = "done"
    /\ end_message' = [kind |-> "closed", player |-> -1]
    /\ UNCHANGED <<COIN_RADIUS, ROWS, COLUMNS, error, coins, col_ranges, moves,
                   cur_player, moves_made, coin>>

(* The pixels a click is drawn from: the first and the last pixel of the    *)
(* range of every column, the pixel before the first range and the pixel    *)
(* after the last one.                                                      *)
ClickXs ==
    {k * Square + d : k \in 1..COLUMNS, d \in {0, Square - 1}}
        \cup {Square - 1, (COLUMNS + 1) * Square}

(* The state of a game: the board, the players' records and the locals of  *)
(* the event loop.                                                         *)
Game ==
    [coins |-> coins, moves |-> moves, cur_player |-> cur_player,
     moves_made |-> moves_made, coin |-> coin, end_message |-> end_message,
     pc |-> pc]

(* The game entering the event loop (lines 286-287, 336-338). *)
NewGame ==
    [coins |-> BoardCoins, moves |-> [p \in {0, 1} |-> <<>>], cur_player |-> 0,
     moves_made |-> 0, coin |-> None, end_message |-> NoMessage, pc |-> "loop"]

NextPlayerMutStay(p) == p
NextPlayer(p) == 1 - p

TieCountMutLate == COLUMNS * ROWS + 1
TieCount == COLUMNS * ROWS

CountMutStay(n) == n
CountMutTwice(n) == n + 2
Count(n) == n + 1

(* Lines 294-307: the game after a click at pixel x, with Board.place_coin  *)
(* (lines 212-227), Coin.place and Player.place_coin inlined.               *)
Click(g, x) ==
    LET player == g.cur_player
        c == PlacedCoin(g.coins, x)
    IN  IF c = None THEN [g EXCEPT !.coin = None]
        ELSE
          LET board == [g.coins EXCEPT ![c[1]][c[2]] =
                            Place(@, PlayerColour(player))]
              mv == [g.moves EXCEPT ![player] = PlayerPlaceCoin(@, c)]
              placed == [g EXCEPT !.coin = c, !.coins = board, !.moves = mv]
              n == Count(g.moves_made)
          IN  IF has_win(mv[player], c)
              THEN [placed EXCEPT
                      !.end_message = [kind |-> "wins", player |-> player],
                      !.pc = "done"]
              ELSE IF n = TieCount
              THEN [placed EXCEPT
                      !.moves_made = n,
                      !.end_message = [kind |-> "tie", player |-> -1],
                      !.pc = "done"]
              ELSE [placed EXCEPT
                      !.moves_made = n,
                      !.cur_player = NextPlayer(player)]

(* One iteration of the loop on a MOUSEBUTTONUP event at pixel x. *)
MouseButtonUp(x) ==
    /\ Running
    /\ \E g \in {Click(Game, x)} :
           /\ coins' = g.coins
           /\ moves' = g.moves
           /\ cur_player' = g.cur_player
           /\ moves_made' = g.moves_made
           /\ coin' = g.coin
           /\ end_message' = g.end_message
           /\ pc' = g.pc
    /\ UNCHANGED <<COIN_RADIUS, ROWS, COLUMNS, error, col_ranges>>

Next ==
    \/ Main
    \/ Quit
    \/ \E x \in ClickXs : MouseButtonUp(x)

Spec == Init /\ [][Next]_vars

(* Lines 294-305 when Board.place_coin returns a coin: a click on a column  *)
(* that is not full.                                                        *)
Accept == \E x \in ClickXs : MouseButtonUp(x) /\ coin' # None

(* The program started is run, and the players keep clicking columns that   *)
(* are not full as long as the loop waits for events.                       *)
(* Boards of at most FairCells cells are explored under these conditions.   *)
FairCells == 9

InitFair == Init /\ ROWS * COLUMNS <= FairCells

SpecFair == InitFair /\ [][Next]_vars /\ WF_vars(Main) /\ WF_vars(Accept)

(***************************************************************************)
(* A board long enough for a run of WinLength coins: 2 rows and WinLength  *)
(* or WinLength + 1 columns.  The exploration starts in the event loop     *)
(* after the clicks 0, 0, 1, 1, ..., k-1, k-1 on columns (player 0 takes   *)
(* the bottom cell and player 1 the top cell of each of the first k        *)
(* columns), computed by running the click handler on them, and leaves     *)
(* FreeCols columns empty; from there every click is explored to the end   *)
(* of the game.                                                            *)
(***************************************************************************)
FreeCols == 3

(* The first pixel of the range of a column (line 193). *)
ColumnPixel(col) == (col + 1) * Square

(* The event loop run on a sequence of clicks, until a break: after[i] is   *)
(* the game after the first i clicks.                                      *)
Replay(g, xs) ==
    LET after[i \in 0..Len(xs)] ==
            IF i = 0 THEN g
            ELSE CHOOSE h \in {IF b.pc = "loop" THEN Click(b, xs[i]) ELSE b :
                                  b \in {after[i - 1]}} : TRUE
    IN  after[Len(xs)]

FilledTwice(k) == [i \in 1..(2 * k) |-> ColumnPixel((i - 1) \div 2)]

InitLong ==
    /\ COIN_RADIUS = DefaultRadius
    /\ ROWS = 2
    /\ COLUMNS \in {WinLength, WinLength + 1}
    /\ error = <<>>
    /\ col_ranges = BoardColRanges
    /\ \E g \in {Replay(NewGame, FilledTwice(COLUMNS - FreeCols))} :
           /\ coins = g.coins
           /\ moves = g.moves
           /\ cur_player = g.cur_player
           /\ moves_made = g.moves_made
           /\ coin = g.coin
           /\ end_message = g.end_message
           /\ pc = g.pc

(* Clicks on the last column filled at the start, on the columns left      *)
(* empty and to the right of the last column.                              *)
LongClickXs ==
    {ColumnPixel(col) : col \in (COLUMNS - FreeCols - 1)..COLUMNS}

NextLong ==
    \/ Quit
    \/ \E x \in LongClickXs : MouseButtonUp(x)

SpecLong == InitLong /\ [][NextLong]_vars

(***************************************************************************)
(* What the board itself shows, independently of the adjacency records:    *)
(* straight lines of placed coins of one colour.                           *)
(***************************************************************************)

(* The run a player needs, as documented by has_win (line 145). *)
RequiredRun == 4

Started == pc \in {"loop", "done"}

Cells == {<<col, row>> : col \in 0..(COLUMNS - 1), row \in 0..(ROWS - 1)}

PlacedCells(board) == {c \in Cells : board[c[1]][c[2]].placed}

Owned(board, colour, c) ==
    /\ c \in Cells
    /\ board[c[1]][c[2]].placed
    /\ board[c[1]][c[2]].colour = colour

(* The player whose colour the coin at c carries. *)
Owner(board, c) == CHOOSE p \in {0, 1} : board[c[1]][c[2]].colour = PlayerColour(p)

Ray(board, colour, c, dx, dy) ==
    LET ray[m \in Cells] ==
            LET next == <<m[1] + dx, m[2] + dy>>
            IN  IF Owned(board, colour, next) THEN 1 + ray[next] ELSE 0
    IN  ray[c]

(* Horizontal, vertical and the two diagonals. *)
Axes == {<<1, 0>>, <<0, 1>>, <<1, 1>>, <<1, -1>>}

LineLength(board, colour, c, d) ==
    1 + Ray(board, colour, c, d[1], d[2]) + Ray(board, colour, c, -d[1], -d[2])

Connects(board, colour, c, k) ==
    \E d \in Axes : LineLength(board, colour, c, d) >= k

(* The two reasons for which Board.place_coin refuses a click at pixel x. *)
NoColumn(x) == \A col \in 0..(COLUMNS - 1) : x \notin col_ranges[col]
ColumnFull(x) ==
    \E col \in 0..(COLUMNS - 1) :
        /\ x \in col_ranges[col]
        /\ \A row \in 0..(ROWS - 1) : coins[col][row].placed

(***************************************************************************)
(* Claims                                                                  *)
(***************************************************************************)

(* C1: for the coin just placed and recorded by a player, has_win is TRUE   *)
(* exactly when the coin lies on a horizontal, vertical or diagonal line    *)
(* of at least 4 coins of that player.                                      *)
C1_HasWinIffLineOfFour ==
    (Started /\ coin # None) =>
        LET p == Owner(coins, coin)
        IN  has_win(moves[p], coin)
                <=> Connects(coins, PlayerColour(p), coin, RequiredRun)

(* C2: an accepted move of the active player that completes a line of at    *)
(* least 4 of that player's coins through the placed coin ends the game at  *)
(* once with that player declared the winner.                               *)
C2_CompletedLineWins ==
    [][\A x \in ClickXs :
          (/\ MouseButtonUp(x)
           /\ coin' # None
           /\ Connects(coins', PlayerColour(cur_player), coin', RequiredRun))
          => (/\ pc' = "done"
              /\ end_message' = [kind |-> "wins", player |-> cur_player])]_vars

(* C3: the placed cells of every column form a block from row ROWS-1        *)
(* upward, and an accepted click in a column places the coin in the lowest  *)
(* unplaced cell of that column.                                            *)
NoGaps ==
    Started =>
        \A c \in Cells :
            (coins[c[1]][c[2]].placed /\ c[2] < ROWS - 1)
                => coins[c[1]][c[2] + 1].placed

DropsLowest ==
    (pc = "loop" /\ coins' # coins) =>
        /\ coin' \in Cells
        /\ ~coins[coin'[1]][coin'[2]].placed
        /\ coins'[coin'[1]][coin'[2]].placed
        /\ \A row \in (coin'[2] + 1)..(ROWS - 1) : coins[coin'[1]][row].placed
        /\ \A x \in ClickXs : x \in col_ranges[coin'[1]] => MouseButtonUp(x)

C3_Gravity == []NoGaps /\ [][DropsLowest]_vars

(* A third coin lands on a stack of two, with an unplaced cell above it. *)
C3_Witness ==
    /\ Started
    /\ coin # None
    /\ ROWS >= 4
    /\ coin[2] = ROWS - 3
    /\ \E c \in Cells : c[1] # coin[1] /\ coins[c[1]][c[2]].placed

(* C4: a click that belongs to no column, or to a column that is full,      *)
(* returns no coin and changes no cell, no move record, neither the move    *)
(* counter nor the active player, and does not end the game: a step that    *)
(* is not such a no-op is the step of no refused click.                     *)
Refused ==
    /\ coin' = None
    /\ UNCHANGED <<coins, moves, moves_made, cur_player, pc, end_message>>

C4_RejectedMoveNoOp ==
    [][(pc = "loop" /\ ~Refused) =>
          \A x \in ClickXs :
              (NoColumn(x) \/ ColumnFull(x)) => ~MouseButtonUp(x)]_vars

(* A click has been refused while one column is full and another is not. *)
C4_Witness ==
    /\ pc = "loop"
    /\ coin = None
    /\ moves_made > 0
    /\ \E col \in 0..(COLUMNS - 1) : \A row \in 0..(ROWS - 1) : coins[col][row].placed
    /\ \E c \in Cells : ~coins[c[1]][c[2]].placed

(* C5: the game ends in a tie exactly when the board is full and no coin    *)
(* on it produced a win, i.e. no placed coin lies on a line of at least 4   *)
(* coins of its own colour; never while a cell is unplaced.                 *)
BoardFull == Started /\ PlacedCells(coins) = Cells

NoLineOfFour ==
    \A c \in PlacedCells(coins) :
        ~Connects(coins, coins[c[1]][c[2]].colour, c, RequiredRun)

C5_TieIffFullWithoutWin ==
    Started =>
        /\ (end_message.kind = "tie") <=> (BoardFull /\ NoLineOfFour)
        /\ (end_message.kind = "tie") => moves_made = ROWS * COLUMNS

(* C6: once the game has ended in a win or a tie nothing changes any more:  *)
(* not the board, the move records, the move counter, the active player,    *)
(* the last coin or the outcome.                                            *)
Ended == end_message.kind \in {"wins", "tie"}

C6_TerminalAbsorbing ==
    [][Ended => UNCHANGED <<coins, moves, moves_made, cur_player, coin, pc,
                            end_message>>]_vars

(* The game has ended with a win of player 0 before the board was full. *)
C6_Witness ==
    /\ pc = "done"
    /\ end_message = [kind |-> "wins", player |-> 0]
    /\ ~BoardFull

(* C7: player 0 starts; the active player changes, to the other player,     *)
(* exactly on an accepted move that does not end the game; player 0 has as  *)
(* many coins as player 1 or one more; a placed coin carries the colour of  *)
(* the player who was active when it was placed.                            *)
CoinsOf(p) == {c \in PlacedCells(coins) : coins[c[1]][c[2]].colour = PlayerColour(p)}

TurnInv ==
    Started =>
        /\ cur_player \in {0, 1}
        /\ (PlacedCells(coins) = {}) => cur_player = 0
        /\ Cardinality(CoinsOf(0)) - Cardinality(CoinsOf(1)) \in {0, 1}
        /\ PlacedCells(coins) = CoinsOf(0) \cup CoinsOf(1)

TurnStep ==
    LET accepted == pc = "loop" /\ coins' # coins
    IN  /\ (cur_player' # cur_player) <=> (accepted /\ pc' = "loop")
        /\ (cur_player' # cur_player) => cur_player' = 1 - cur_player
        /\ accepted =>
              /\ coin' \in Cells
              /\ coins'[coin'[1]][coin'[2]].colour = PlayerColour(cur_player)
              /\ coin' \in DOMAIN moves'[cur_player]

C7_TurnOrder == []TurnInv /\ [][TurnStep]_vars

(* Player 1 is to move after three accepted moves and a refused click. *)
C7_Witness ==
    /\ pc = "loop"
    /\ cur_player = 1
    /\ Cardinality(PlacedCells(coins)) = 3
    /\ coin = None

(* C8: every accepted move (a click in a column that returns the coin)     *)
(* adds exactly one placed cell and nothing else adds or removes one, so    *)
(* the placed cells number the accepted moves; they never exceed            *)
(* ROWS*COLUMNS, and while the game is in progress moves_made equals their  *)
(* number.                                                                  *)
CountInv ==
    Started =>
        /\ Cardinality(PlacedCells(coins)) <= ROWS * COLUMNS
        /\ (pc = "loop") => moves_made = Cardinality(PlacedCells(coins))

CountStep ==
    Started =>
        LET accepted ==
                /\ coin' \in Cells
                /\ \E x \in ClickXs : x \in col_ranges[coin'[1]] /\ MouseButtonUp(x)
        IN  Cardinality(PlacedCells(coins')) =
                Cardinality(PlacedCells(coins)) + (IF accepted THEN 1 ELSE 0)

C8_PlacedEqualsAccepted == []CountInv /\ [][CountStep]_vars

(* Five moves were accepted and the last click was refused. *)
C8_Witness ==
    /\ pc = "loop"
    /\ moves_made = 5
    /\ Cardinality(PlacedCells(coins)) = 5
    /\ coin = None

(* C9: with a non-positive number of rows or columns (or run length) the    *)
(* program stops with an InvalidValueError whose message names the value:   *)
(* no board is created and no move is accepted.                             *)
C9_InvalidConfigurationFails ==
    (ROWS <= 0 \/ COLUMNS <= 0 \/ WinLength <= 0) =>
        /\ pc \in {"main", "error"}
        /\ coins = <<>> /\ col_ranges = <<>>
        /\ moves = [p \in {0, 1} |-> <<>>]
        /\ moves_made = 0 /\ coin = None /\ end_message = NoMessage
        /\ (pc = "error") =>
              /\ error # <<>>
              /\ (ROWS <= 0) <=> (\E i \in DOMAIN error : error[i] = "rows")
              /\ (COLUMNS <= 0) <=> (\E i \in DOMAIN error : error[i] = "columns")

(* The rows alone are invalid and the error has been raised. *)
C9_Witness ==
    /\ pc = "error"
    /\ ROWS <= 0 /\ COLUMNS > 0 /\ COIN_RADIUS > 0
    /\ error = <<"rows">>

(* C10: when the game has ended with a win for player p, the last coin      *)
(* placed is a coin of p, recorded by p, and lies on a horizontal, vertical *)
(* or diagonal line of at least 4 coins of p.                               *)
C10_NoFalseWin ==
    (end_message.kind = "wins") =>
        LET p == end_message.player
        IN  /\ pc = "done"
            /\ p \in {0, 1}
            /\ coin \in Cells
            /\ Owned(coins, PlayerColour(p), coin)
            /\ coin \in DOMAIN moves[p]
            /\ Connects(coins, PlayerColour(p), coin, RequiredRun)

(* Player 1 has won: the game has ended with a win that player 0 did not    *)
(* take first.                                                              *)
C10_Witness ==
    /\ pc = "done"
    /\ end_message = [kind |-> "wins", player |-> 1]
    /\ coin # None

(* C11: for each player the keys of _moves are the cells the player has     *)
(* placed, and the list of a key holds, once each, exactly the cells of its *)
(* 8-neighbourhood that the player has placed (at most 8); the relation is  *)
(* symmetric and every coordinate in a list is a key.                       *)
Neighbours(p, k) == {n \in CoinsOf(p) : n # k /\ Touching(n, k)}

C11_AdjacencyRecord ==
    Started =>
        \A p \in {0, 1} :
            /\ DOMAIN moves[p] = CoinsOf(p)
            /\ \A k \in DOMAIN moves[p] :
                  /\ BagToSet(moves[p][k]) = Neighbours(p, k)
                  /\ \A n \in BagToSet(moves[p][k]) :
                        /\ CopiesIn(n, moves[p][k]) = 1
                        /\ n \in DOMAIN moves[p]
                        /\ BagIn(k, moves[p][n])
                  /\ BagCardinality(moves[p][k]) <= 8

(* A coin of player 0 has three recorded neighbours and a coin of player 1  *)
(* has two.                                                                 *)
C11_Witness ==
    /\ Started
    /\ \E k \in DOMAIN moves[0] : BagCardinality(moves[0][k]) = 3
    /\ \E k \in DOMAIN moves[1] : BagCardinality(moves[1][k]) = 2

(* C12: for the coin c just placed and every recorded neighbour n of c, the *)
(* length has_win compares is the length of the line of the player's coins  *)
(* through c along the axis of n - c and of nothing off that axis.          *)
C12_AxisExactRun ==
    (Started /\ coin # None) =>
        LET p == Owner(coins, coin)
        IN  \A n \in BagToSet(moves[p][coin]) :
                RunLength(moves[p], coin, n) =
                    LineLength(coins, PlayerColour(p), coin,
                               <<n[1] - coin[1], n[2] - coin[2]>>)

(* The coin just placed closes a diagonal line of three and also touches a  *)
(* coin of its player off that diagonal.                                    *)
C12_Witness ==
    /\ Started
    /\ coin # None
    /\ LET p == Owner(coins, coin)
       IN  /\ \E n \in BagToSet(moves[p][coin]) :
                 /\ n[1] # coin[1] /\ n[2] # coin[2]
                 /\ RunLength(moves[p], coin, n) = 3
           /\ BagCardinality(moves[p][coin]) >= 3

(* C13: a move that fills the last empty cell and completes a line of at    *)
(* least 4 coins of the player who made it ends the game as a win for that  *)
(* player, not as a tie.                                                    *)
C13_WinBeforeTie ==
    [][(/\ pc = "loop"
        /\ coins' # coins
        /\ PlacedCells(coins') = Cells
        /\ Connects(coins', PlayerColour(cur_player), coin', RequiredRun))
       => (/\ pc' = "done"
           /\ end_message' = [kind |-> "wins", player |-> cur_player])]_vars

(* C14: an accepted move changes exactly one cell, from unplaced to placed  *)
(* with the colour of the active player; a placed cell never changes; the   *)
(* active player's record gains the new key and the new coordinate in the   *)
(* lists of the adjacent keys, and loses nothing; the other player's        *)
(* record does not change.                                                  *)
CellsKept ==
    \A c \in PlacedCells(coins) : coins'[c[1]][c[2]] = coins[c[1]][c[2]]

AcceptedFrame ==
    LET p == cur_player
        q == 1 - cur_player
    IN  /\ coin' \in Cells
        /\ \A c \in Cells \ {coin'} : coins'[c[1]][c[2]] = coins[c[1]][c[2]]
        /\ ~coins[coin'[1]][coin'[2]].placed
        /\ coins'[coin'[1]][coin'[2]] =
               [placed |-> TRUE, colour |-> PlayerColour(p)]
        /\ moves'[q] = moves[q]
        /\ DOMAIN moves'[p] = (DOMAIN moves[p]) \cup {coin'}
        /\ coin' \notin DOMAIN moves[p]
        /\ \A k \in DOMAIN moves[p] :
              moves'[p][k] = IF Touching(k, coin')
                             THEN moves[p][k] (+) SetToBag({coin'})
                             ELSE moves[p][k]

FrameStep ==
    (pc = "loop") =>
        /\ CellsKept
        /\ (coins' # coins) => AcceptedFrame
        /\ (coins' = coins) => moves' = moves

C14_AcceptedMoveFrame == [][FrameStep]_vars

(* The coin just placed touches a coin of its player that already had       *)
(* another recorded neighbour, while the other player has coins too.        *)
C14_Witness ==
    /\ Started
    /\ coin # None
    /\ LET p == Owner(coins, coin)
       IN  /\ \E n \in BagToSet(moves[p][coin]) : BagCardinality(moves[p][n]) >= 2
           /\ Cardinality(DOMAIN moves[1 - p]) >= 2

(* C15: while the game is in progress at least one cell of the board is     *)
(* unplaced, so every call of Board.place_coin meets its precondition.      *)
C15_SpaceAvailable ==
    (pc = "loop") => \E c \in Cells : ~coins[c[1]][c[2]].placed

(* The game is in progress with a single unplaced cell left. *)
C15_Witness ==
    /\ pc = "loop"
    /\ Cardinality(Cells \ PlacedCells(coins)) = 1
    /\ Cardinality(Cells) >= 9

(* C16: from every in-progress state the game ends in a win or a tie        *)
(* (unless the window is closed first) when the players keep clicking       *)
(* columns that are not full; at most ROWS * COLUMNS moves are accepted,    *)
(* and a tie is reached with exactly that many; a click that is refused     *)
(* leaves the game in progress.                                             *)
Closed == end_message.kind = "closed"

RefusedKeepsPlaying ==
    (pc = "loop" /\ coins' = coins /\ end_message'.kind # "closed") =>
        (pc' = "loop" /\ end_message' = NoMessage)

AcceptedBound ==
    Started =>
        /\ moves_made <= ROWS * COLUMNS
        /\ (end_message.kind = "tie") => moves_made = ROWS * COLUMNS

C16_Termination ==
    /\ (pc = "loop") ~> (Ended \/ Closed)
    /\ []AcceptedBound
    /\ [][RefusedKeepsPlaying]_vars

(* A game has ended after a move was accepted for every cell of the board.  *)
C16_Witness ==
    /\ Ended
    /\ moves_made = ROWS * COLUMNS
    /\ ROWS >= 3 /\ COLUMNS >= 3

====
